---- MODULE Spec2Model ----
(***************************************************************************)
(* The three-level finite-difference wave steppers Wave1D and Wave2D of    *)
(* wave_pack/wave_class.py, with the object store (numpy arrays have       *)
(* identity: two attributes may name the same array) and the generators    *)
(* returned by iteration().                                                *)
(*                                                                         *)
(* Floating-point numbers are modelled as exact rationals <<n, d>> in      *)
(* lowest terms with d > 0; rounding is not modelled.                      *)
(***************************************************************************)
EXTENDS Integers, Sequences, FiniteSets, TLC

VARIABLES
  phase,    \* "Uninitialized", "Bootstrapped", or "Failed" (sys.exit in __init__)
  dim,      \* 0 before construction, 1 for Wave1D, 2 for Wave2D
  heap,     \* the object store: sequence of arrays, an array's reference is its index
  x, y,     \* self.x, self.y: references (0: no such attribute)
  alpha2,   \* self.alpha2 (None before it is set)
  time,     \* self.time
  dt,       \* self.dt
  u_tim1,   \* self.u_tim1: reference to the prev array (0: no such attribute)
  u_ti,     \* self.u_ti: reference to the curr array
  u_tip1,   \* self.u_tip1: reference to the next array
  gens,     \* the generators made by iteration(steps), in creation order
  running,  \* index of the generator now executing between next() and yield (0: none)
  out,      \* the pair last yielded to the caller (None before the first yield)
  got,      \* what the caller's last ux_init()/uxy_init() returned (None before)
  args,     \* history: the constructor's arguments
  grid0,    \* history: the coordinate grids as np.arange built them
  hist,     \* history: the value of every time level when it was computed
  nsub,     \* history: number of sub-steps performed
  writes,   \* history: number of writes the caller made into arrays it received
  icCalls   \* history: number of calls of the initial-condition functions

vars == <<phase, dim, heap, x, y, alpha2, time, dt, u_tim1, u_ti, u_tip1,
          gens, running, out, got, args, grid0, hist, nsub, writes, icCalls>>

None == <<>>

\* ------------------------------------------------------------------ bounds
\* Largest steps argument given to iteration().
MaxSteps == 2
\* Largest number of generators obtained from one stepper.
MaxGens == 2
\* Largest total number of sub-steps of one stepper.
MaxSub == 4
\* Largest number of writes the caller makes into arrays it received.
MaxWrites == 1

\* ------------------------------------------------------------ arithmetic
\* The arithmetic is defined by functions, which take their arguments by
\* value; the operators below only apply them.
Abs(a) == IF a < 0 THEN -a ELSE a

GCD[a \in Nat, b \in Nat] == IF b = 0 THEN a ELSE GCD[b, a % b]

Rat == Int \X Int

\* The rational n/d in lowest terms.
Lowest[n \in Int, d \in Int] ==
  LET g == GCD[Abs(n), Abs(d)]
  IN  IF d < 0 THEN <<(-n) \div g, (-d) \div g>> ELSE <<n \div g, d \div g>>

Q(n, d) == Lowest[n, d]

Zero == <<0, 1>>
One == <<1, 1>>
Two == <<2, 1>>
Half == <<1, 2>>

Sum[p \in Rat, q \in Rat] ==
  LET l == (p[2] \div GCD[p[2], q[2]]) * q[2]
  IN  Lowest[p[1] * (l \div p[2]) + q[1] * (l \div q[2]), l]

Product[p \in Rat, q \in Rat] ==
  Lowest[Lowest[p[1], q[2]][1] * Lowest[q[1], p[2]][1],
         Lowest[p[1], q[2]][2] * Lowest[q[1], p[2]][2]]

RAdd(p, q) == Sum[p, q]

RNeg(p) == Lowest[-p[1], p[2]]

RSub(p, q) == Sum[p, RNeg(q)]

RMul(p, q) == Product[p, q]

RDiv(p, q) == Product[p, Lowest[q[2], q[1]]]

Greater[p \in Rat, q \in Rat] == p[1] * q[2] > q[1] * p[2]

RGt(p, q) == Greater[p, q]

\* Smallest integer >= p.
Ceil(p) == -((-p[1]) \div p[2])

\* ------------------------------------------------------- constructor inputs
\* Sample values a caller-supplied initial-position table may hold.
Vals == {<<-1, 1>>, Zero, One}
\* Domain lengths L (Lx, Ly), spatial steps dx (dxy), time steps dt, speeds c.
Lengths == {One, <<3, 2>>, Two}
SpaceSteps == {Half, One}
TimeSteps == {<<1, 4>>, Half}
Speeds == {One, Two}

\* ------------------------------------------------------------------ arrays
\* np.arange(0, L + dx, dx)
Arange(L, dx) ==
  [i \in 1..Ceil(RDiv(RAdd(L, dx), dx)) |-> RMul(<<i - 1, 1>>, dx)]

\* np.zeros(n)
Zeros1D(n) == [i \in 1..n |-> Zero]

\* np.roll(u, k) of a one-dimensional array
Roll(u, k) == [i \in 1..Len(u) |-> u[((i - 1 - k) % Len(u)) + 1]]

\* (c * dt / dx)**2
Alpha2(c, dtv, dx) ==
  LET r == RDiv(RMul(c, dtv), dx)
  IN  RMul(r, r)

\* Variant: the gate written with >= instead of >.
Unstable1D_ge(a2) == ~RGt(One, a2)

\* if self.alpha2 > 1
Unstable1D(a2) == RGt(a2, One)

\* Variant: self.time = self.dt instead of +=.
time_update_assign(t, dtv) == dtv

\* self.time += self.dt
time_update(t, dtv) == RAdd(t, dtv)

\* Variant: grid[-1] = 0 is forgotten.
bound_standing1D_first(grid) == [grid EXCEPT ![1] = Zero]

\* Wave1D.bound_standing(grid), as the new value of the array it writes into
bound_standing1D(grid) == [grid EXCEPT ![1] = Zero, ![Len(grid)] = Zero]

\* Variant: the factor 0.5 of the neighbour term is left out.
FirstTime1D_noHalf(dtv, vel, a2, tim1) ==
  LET up == Roll(tim1, 1)
      dn == Roll(tim1, -1)
  IN  [i \in 1..Len(tim1) |->
        RAdd(RAdd(RMul(dtv, vel[i]), RMul(RSub(One, a2), tim1[i])),
             RMul(a2, RAdd(up[i], dn[i])))]

\* dt * ut_x0(x) + (1 - alpha2) * u_tim1
\*   + 0.5 * alpha2 * (np.roll(u_tim1, 1) + np.roll(u_tim1, -1))
FirstTime1D(dtv, vel, a2, tim1) ==
  LET up == Roll(tim1, 1)
      dn == Roll(tim1, -1)
  IN  [i \in 1..Len(tim1) |->
        RAdd(RAdd(RMul(dtv, vel[i]), RMul(RSub(One, a2), tim1[i])),
             RMul(RMul(Half, a2), RAdd(up[i], dn[i])))]

\* Variant: both neighbour terms shift the same way (np.roll(u_ti, 1) twice).
Stencil1D_sameShift(a2, tim1, ti) ==
  LET up == Roll(ti, 1)
  IN  [i \in 1..Len(ti) |->
        RAdd(RAdd(RNeg(tim1[i]), RMul(RMul(Two, RSub(One, a2)), ti[i])),
             RMul(a2, RAdd(up[i], up[i])))]

\* -u_tim1 + 2 * (1 - alpha2) * u_ti
\*   + alpha2 * (np.roll(u_ti, 1) + np.roll(u_ti, -1))
Stencil1D(a2, tim1, ti) ==
  LET up == Roll(ti, 1)
      dn == Roll(ti, -1)
  IN  [i \in 1..Len(ti) |->
        RAdd(RAdd(RNeg(tim1[i]), RMul(RMul(Two, RSub(One, a2)), ti[i])),
             RMul(a2, RAdd(up[i], dn[i])))]

\* ------------------------------------------- initial-condition functions, 1D
RLe(p, q) == ~RGt(p, q)

\* initial_func.pulse_trian1d(x, L)
pulse_trian1d(xs, L) ==
  LET lo == RSub(RDiv(L, Two), RDiv(L, <<10, 1>>))
      mid == RDiv(L, Two)
      hi == RAdd(RDiv(L, Two), RDiv(L, <<10, 1>>))
  IN  [k \in 1..Len(xs) |->
        IF RLe(lo, xs[k]) /\ RLe(xs[k], mid) THEN RSub(xs[k], lo)
        ELSE IF RLe(mid, xs[k]) /\ RLe(xs[k], hi) THEN RAdd(RNeg(xs[k]), hi)
        ELSE Zero]

\* initial_func.pulse_square1d(x, L)
pulse_square1d(xs, L) ==
  LET lo == RSub(RDiv(L, Two), RDiv(L, <<10, 1>>))
      hi == RAdd(RDiv(L, Two), RDiv(L, <<10, 1>>))
  IN  [k \in 1..Len(xs) |->
        IF RLe(lo, xs[k]) /\ RLe(xs[k], hi) THEN One ELSE Zero]

\* initial_func.init_vel1d(x)
init_vel1d(xs) == Zeros1D(Len(xs))

\* The initial-position functions u_x0 a caller may pass: the two
\* rational-valued catalog pulses, a table of sample values (one of `tables`), and the
\* function that returns the grid array it was given (lambda x, L: x).
InitPos1D(tables) ==
  {[kind |-> "pulse_trian1d"], [kind |-> "pulse_square1d"], [kind |-> "grid"]}
    \cup {[kind |-> "table", vals |-> t] : t \in tables}

\* Every table of n sample values.
AllTables(n) == [1..n -> Vals]

\* Two tables of n sample values: all ones, and -1, 1, -1, ...
FewTables(n) ==
  {[i \in 1..n |-> One], [i \in 1..n |-> IF i % 2 = 1 THEN <<-1, 1>> ELSE One]}

\* The initial-velocity functions ut_x0: the default, and lambda x: x.
InitVel1D == {"init_vel1d", "grid"}

\* u_x0(self.x, L): the store after the call and the reference returned.
CallInit1D(f, h, xr, L) ==
  CASE f.kind = "grid" -> [heap |-> h, ref |-> xr]
    [] f.kind = "table" -> [heap |-> Append(h, f.vals), ref |-> Len(h) + 1]
    [] f.kind = "pulse_trian1d" ->
         [heap |-> Append(h, pulse_trian1d(h[xr], L)), ref |-> Len(h) + 1]
    [] f.kind = "pulse_square1d" ->
         [heap |-> Append(h, pulse_square1d(h[xr], L)), ref |-> Len(h) + 1]

\* ut_x0(self.x): the value of the array returned.
CallVel1D(g, xs) == IF g = "init_vel1d" THEN init_vel1d(xs) ELSE xs

\* ------------------------------------------------------------ Wave1D.__init__
Construct1D(u_x0, ut_x0, dtv, L, dx, c) ==
  /\ phase = "Uninitialized"
  /\ \E grid \in {Arange(L, dx)}, a2 \in {Alpha2(c, dtv, dx)} :
     \E h1 \in {Append(heap, grid)}, xr \in {Len(heap) + 1} :
         /\ dim' = 1
         /\ x' = xr
         /\ alpha2' = a2
         /\ grid0' = <<grid>>
         /\ args' = [u_x0 |-> u_x0, ut_x0 |-> ut_x0, dt |-> dtv, L |-> L,
                     Ly |-> L, dx |-> dx, c |-> c]
         /\ IF Unstable1D(a2)
            THEN /\ phase' = "Failed"
                 /\ heap' = h1
                 /\ UNCHANGED <<time, dt, u_tim1, u_ti, u_tip1, hist, icCalls>>
            ELSE \E r0 \in {CallInit1D(u_x0, h1, xr, L)} :
                 \E h2 \in {[r0.heap EXCEPT ![r0.ref] = bound_standing1D(@)]} :
                 \E first \in {FirstTime1D(dtv, CallVel1D(ut_x0, h2[xr]), a2,
                                           h2[r0.ref])} :
                 \E h3 \in {Append(h2, bound_standing1D(first))} :
                 \E h4 \in {Append(h3, Zeros1D(Len(first)))} :
                     /\ phase' = "Bootstrapped"
                     /\ heap' = h4
                     /\ time' = time_update(Zero, dtv)
                     /\ dt' = dtv
                     /\ u_tim1' = r0.ref
                     /\ u_ti' = Len(h3)
                     /\ u_tip1' = Len(h4)
                     /\ hist' = <<h2[r0.ref], h3[Len(h3)]>>
                     /\ icCalls' = 2
  /\ UNCHANGED <<y, gens, running, out, got, nsub, writes>>

\* ---------------------------------------------------------- arrays, 2D
\* A two-dimensional array u of shape (nx, ny) is the sequence of its rows:
\* u[i][j] is numpy's u[i - 1, j - 1].
Zeros2D(nx, ny) == [i \in 1..nx |-> [j \in 1..ny |-> Zero]]

\* np.roll(u, k, axis=0) and np.roll(u, k, axis=1)
Roll2D(u, k, axis) ==
  LET nx == Len(u)
      ny == Len(u[1])
  IN  [i \in 1..nx |-> [j \in 1..ny |->
        IF axis = 0 THEN u[((i - 1 - k) % nx) + 1][j]
                    ELSE u[i][((j - 1 - k) % ny) + 1]]]

\* grid[i, :] = 0 and grid[:, j] = 0
ZeroRow(grid, i) == [grid EXCEPT ![i] = [j \in 1..Len(grid[i]) |-> Zero]]
ZeroCol(grid, j) == [i \in 1..Len(grid) |-> [grid[i] EXCEPT ![j] = Zero]]

\* Wave2D.bound_standing(grid), as the new value of the array it writes into
\* (g is the one array object that the four slice assignments write into)
bound_standing2D(grid) ==
  CHOOSE r \in {ZeroCol(ZeroRow(ZeroCol(ZeroRow(g, 1), 1), Len(g)), Len(g[1])) :
                  g \in {grid}} : TRUE

\* if self.alpha2 > 0.5
Unstable2D(a2) == RGt(a2, Half)

\* The sum of the four np.roll shifts of u.
Neighbours2D(u) ==
  LET a == Roll2D(u, 1, 0)
      b == Roll2D(u, -1, 0)
      c == Roll2D(u, 1, 1)
      d == Roll2D(u, -1, 1)
  IN  [i \in 1..Len(u) |-> [j \in 1..Len(u[1]) |->
        RAdd(RAdd(a[i][j], b[i][j]), RAdd(c[i][j], d[i][j]))]]

\* dt * ut_xy0(x, y) + (1 - 2 * alpha2) * u_tim1 + 0.5 * alpha2 * (four rolls)
FirstTime2D(dtv, vel, a2, tim1) ==
  LET nb == Neighbours2D(tim1)
  IN  [i \in 1..Len(tim1) |-> [j \in 1..Len(tim1[1]) |->
        RAdd(RAdd(RMul(dtv, vel[i][j]),
                  RMul(RSub(One, RMul(Two, a2)), tim1[i][j])),
             RMul(RMul(Half, a2), nb[i][j]))]]

\* -u_tim1 + 2 * (1 - 2 * alpha2) * u_ti + alpha2 * (four rolls)
Stencil2D(a2, tim1, ti) ==
  LET nb == Neighbours2D(ti)
  IN  [i \in 1..Len(ti) |-> [j \in 1..Len(ti[1]) |->
        RAdd(RAdd(RNeg(tim1[i][j]),
                  RMul(RMul(Two, RSub(One, RMul(Two, a2))), ti[i][j])),
             RMul(a2, nb[i][j]))]]

\* ------------------------------------------- initial-condition functions, 2D
\* initial_func.wave_polynomial2d: f = 4 * x**2 * y * (1 - x) * (1 - y) on the
\* mesh y, x = np.meshgrid(y, x), whose shape is (len(x), len(y)).
wave_polynomial2d(xs, ys, Lx, Ly) ==
  [i \in 1..Len(xs) |-> [j \in 1..Len(ys) |->
     RMul(RMul(RMul(<<4, 1>>, RMul(xs[i], xs[i])), ys[j]),
          RMul(RSub(One, xs[i]), RSub(One, ys[j])))]]

\* initial_func.wave_poly_trig2d: g = f = 4 * x**2 * y * (1 - x) * (1 - y);
\* h = g * f (the gaussian assigned to f first is overwritten).
wave_poly_trig2d(xs, ys, Lx, Ly) ==
  LET f == wave_polynomial2d(xs, ys, Lx, Ly)
  IN  [i \in 1..Len(xs) |-> [j \in 1..Len(ys) |-> RMul(f[i][j], f[i][j])]]

\* initial_func.init_vel2d(x, y)
init_vel2d(xs, ys) == Zeros2D(Len(xs), Len(ys))

\* The initial-position functions u_xy0: the two rational-valued catalog
\* waves, and the caller's np.ones((len(x), len(y))) and np.subtract.outer(x, y).
InitPos2D == {"wave_polynomial2d", "wave_poly_trig2d", "ones", "outer_diff"}

\* The initial-velocity functions ut_xy0: the default, and np.add.outer(x, y).
InitVel2D == {"init_vel2d", "outer_sum"}

\* u_xy0(self.x, self.y, Lx, Ly): the value of the (new) array returned.
CallInit2D(f, xs, ys, Lx, Ly) ==
  CASE f = "wave_polynomial2d" -> wave_polynomial2d(xs, ys, Lx, Ly)
    [] f = "wave_poly_trig2d" -> wave_poly_trig2d(xs, ys, Lx, Ly)
    [] f = "ones" -> [i \in 1..Len(xs) |-> [j \in 1..Len(ys) |-> One]]
    [] f = "outer_diff" ->
         [i \in 1..Len(xs) |-> [j \in 1..Len(ys) |-> RSub(xs[i], ys[j])]]

\* ut_xy0(self.x, self.y): the value of the array returned.
CallVel2D(g, xs, ys) ==
  IF g = "init_vel2d" THEN init_vel2d(xs, ys)
  ELSE [i \in 1..Len(xs) |-> [j \in 1..Len(ys) |-> RAdd(xs[i], ys[j])]]

\* ------------------------------------------------------------ Wave2D.__init__
Construct2D(u_xy0, ut_xy0, Lx, Ly, dtv, dxy, c) ==
  /\ phase = "Uninitialized"
  /\ \E gx \in {Arange(Lx, dxy)}, gy \in {Arange(Ly, dxy)},
        a2 \in {Alpha2(c, dtv, dxy)} :
     \E h1 \in {Append(Append(heap, gx), gy)},
        xr \in {Len(heap) + 1}, yr \in {Len(heap) + 2} :
         /\ dim' = 2
         /\ x' = xr
         /\ y' = yr
         /\ alpha2' = a2
         /\ grid0' = <<gx, gy>>
         /\ args' = [u_x0 |-> u_xy0, ut_x0 |-> ut_xy0, dt |-> dtv, L |-> Lx,
                     Ly |-> Ly, dx |-> dxy, c |-> c]
         /\ IF Unstable2D(a2)
            THEN /\ phase' = "Failed"
                 /\ heap' = h1
                 /\ UNCHANGED <<time, dt, u_tim1, u_ti, u_tip1, hist, icCalls>>
            ELSE \E h2 \in {Append(h1, bound_standing2D(
                              CallInit2D(u_xy0, h1[xr], h1[yr], Lx, Ly)))} :
                 \E first \in {FirstTime2D(dtv, CallVel2D(ut_xy0, h2[xr], h2[yr]),
                                           a2, h2[Len(h2)])} :
                 \E h3 \in {Append(h2, bound_standing2D(first))} :
                 \E h4 \in {Append(h3, Zeros2D(Len(first), Len(first[1])))} :
                     /\ phase' = "Bootstrapped"
                     /\ heap' = h4
                     /\ time' = time_update(Zero, dtv)
                     /\ dt' = dtv
                     /\ u_tim1' = Len(h2)
                     /\ u_ti' = Len(h3)
                     /\ u_tip1' = Len(h4)
                     /\ hist' = <<h2[Len(h2)], h3[Len(h3)]>>
                     /\ icCalls' = 2
  /\ UNCHANGED <<gens, running, out, got, nsub, writes>>

\* ------------------------------------------------- iteration(), ux_init()
\* Variant: a three-buffer ring that computes into the scratch buffer in place
\* and rotates the references instead of copying.
Advance1D_swap(h, a2, tim1, ti, tip1) ==
  LET nxt == bound_standing1D(Stencil1D(a2, h[tim1], h[ti]))
  IN  [heap |-> [h EXCEPT ![tip1] = nxt],
       u_tip1 |-> tim1, u_tim1 |-> ti, u_ti |-> tip1]

\* Lines 83-89 of Wave1D.iteration without the clock: the expression makes a
\* new array that self.u_tip1 is rebound to, bound_standing writes into it,
\* and prev and curr are rebound to fresh copies.
Advance1D(h, a2, tim1, ti, tip1) ==
  LET nxt == bound_standing1D(Stencil1D(a2, h[tim1], h[ti]))
      n == Len(h)
  IN  [heap |-> h \o <<nxt, h[ti], nxt>>,
       u_tip1 |-> n + 1, u_tim1 |-> n + 2, u_ti |-> n + 3]

\* Lines 164-172 of Wave2D.iteration without the clock.
Advance2D(h, a2, tim1, ti, tip1) ==
  LET nxt == bound_standing2D(Stencil2D(a2, h[tim1], h[ti]))
      n == Len(h)
  IN  [heap |-> h \o <<nxt, h[ti], nxt>>,
       u_tip1 |-> n + 1, u_tim1 |-> n + 2, u_ti |-> n + 3]

\* Variant: a loop that is never over, whatever is left (a sequence that keeps
\* stepping and never reaches its yield).
RangeDone_never(left) == FALSE

\* for _ in range(steps): the loop is over when no iteration is left.
RangeDone(left) == left = 0

\* iteration(steps): calling it only makes the generator; nothing runs.
NewIteration(steps) ==
  /\ phase = "Bootstrapped"
  /\ running = 0
  /\ Len(gens) < MaxGens
  /\ gens' = Append(gens, [steps |-> steps, left |-> 0, pulls |-> 0,
                           from |-> nsub])
  /\ UNCHANGED <<phase, dim, heap, x, y, alpha2, time, dt, u_tim1, u_ti, u_tip1,
                 running, out, got, args, grid0, hist, nsub, writes, icCalls>>

\* next(gen): the generator (re)enters `while True` and starts range(steps).
\* (nsub + steps <= MaxSub only bounds the model.)
Pull(g) ==
  /\ phase = "Bootstrapped"
  /\ running = 0
  /\ nsub + gens[g].steps <= MaxSub
  /\ gens' = [gens EXCEPT ![g].left = gens[g].steps, ![g].from = nsub]
  /\ running' = g
  /\ UNCHANGED <<phase, dim, heap, x, y, alpha2, time, dt, u_tim1, u_ti, u_tip1,
                 out, got, args, grid0, hist, nsub, writes, icCalls>>

\* One pass of the for loop's body.
SubStep(adv) ==
  /\ heap' = adv.heap
  /\ u_tip1' = adv.u_tip1
  /\ u_tim1' = adv.u_tim1
  /\ u_ti' = adv.u_ti
  /\ time' = time_update(time, dt)
  /\ gens' = [gens EXCEPT ![running].left = @ - 1]
  /\ hist' = Append(hist, adv.heap[adv.u_ti])
  /\ nsub' = nsub + 1
  /\ UNCHANGED <<phase, dim, x, y, alpha2, dt, running, out, got, args, grid0,
                 writes, icCalls>>

SubStep1D ==
  /\ running # 0
  /\ dim = 1
  /\ ~RangeDone(gens[running].left)
  /\ nsub < MaxSub
  /\ \E adv \in {Advance1D(heap, alpha2, u_tim1, u_ti, u_tip1)} : SubStep(adv)

SubStep2D ==
  /\ running # 0
  /\ dim = 2
  /\ ~RangeDone(gens[running].left)
  /\ nsub < MaxSub
  /\ \E adv \in {Advance2D(heap, alpha2, u_tim1, u_ti, u_tip1)} : SubStep(adv)

\* Variant: yield self.u_tim1, self.time (the older level).
Yield_prev ==
  /\ running # 0
  /\ RangeDone(gens[running].left)
  /\ out' = [gen |-> running, field |-> u_tim1, time |-> time, n |-> nsub,
             m |-> gens[running].from, k |-> gens[running].pulls + 1]
  /\ gens' = [gens EXCEPT ![running].pulls = @ + 1]
  /\ running' = 0
  /\ UNCHANGED <<phase, dim, heap, x, y, alpha2, time, dt, u_tim1, u_ti, u_tip1,
                 got, args, grid0, hist, nsub, writes, icCalls>>

\* yield self.u_ti, self.time
Yield ==
  /\ running # 0
  /\ RangeDone(gens[running].left)
  /\ out' = [gen |-> running, field |-> u_ti, time |-> time, n |-> nsub,
             m |-> gens[running].from, k |-> gens[running].pulls + 1]
  /\ gens' = [gens EXCEPT ![running].pulls = @ + 1]
  /\ running' = 0
  /\ UNCHANGED <<phase, dim, heap, x, y, alpha2, time, dt, u_tim1, u_ti, u_tip1,
                 got, args, grid0, hist, nsub, writes, icCalls>>

\* return self.u_tim1, self.x (and self.y): the references returned
ux_init == [u |-> u_tim1, x |-> x, y |-> y]

\* The caller calls ux_init() / uxy_init() and keeps what it returns.
UxInit ==
  /\ phase = "Bootstrapped"
  /\ running = 0
  /\ got' = [u |-> ux_init.u, x |-> ux_init.x, y |-> ux_init.y, n |-> nsub]
  /\ got' # got
  /\ UNCHANGED <<phase, dim, heap, x, y, alpha2, time, dt, u_tim1, u_ti, u_tip1,
                 gens, running, out, args, grid0, hist, nsub, writes, icCalls>>

\* ------------------------------------------------------------------- system
Init ==
  /\ phase = "Uninitialized"
  /\ dim = 0
  /\ heap = <<>>
  /\ x = 0
  /\ y = 0
  /\ alpha2 = None
  /\ time = None
  /\ dt = None
  /\ u_tim1 = 0
  /\ u_ti = 0
  /\ u_tip1 = 0
  /\ gens = <<>>
  /\ running = 0
  /\ out = None
  /\ got = None
  /\ args = None
  /\ grid0 = <<>>
  /\ hist = <<>>
  /\ nsub = 0
  /\ writes = 0
  /\ icCalls = 0

\* The caller assigns v to one sample of a field array it received from
\* iteration() or ux_init() / uxy_init(): u[i] = v, or u[i, j] = v.
CallerWrite(r, i, j, v) ==
  /\ phase = "Bootstrapped"
  /\ running = 0
  /\ writes < MaxWrites
  /\ \/ out # None /\ r = out.field
     \/ got # None /\ r = got.u
  /\ i \in 1..Len(heap[r])
  /\ IF dim = 1
     THEN j = 1 /\ heap' = [heap EXCEPT ![r][i] = v]
     ELSE j \in 1..Len(heap[r][i]) /\ heap' = [heap EXCEPT ![r][i][j] = v]
  /\ writes' = writes + 1
  /\ UNCHANGED <<phase, dim, x, y, alpha2, time, dt, u_tim1, u_ti, u_tip1,
                 gens, running, out, got, args, grid0, hist, nsub, icCalls>>

\* Largest index along an axis of the grids built from Lengths and SpaceSteps.
AxisIndices == 1..5

\* Wave1D(u_x0, ut_x0, dt, L, dx, c) with L from Ls, dx from Dxs, dt from Dts,
\* c from Cs
\* and u_x0 from the catalog, the grid function and every table (all) or two
\* tables (otherwise)
Build1D(Ls, Dxs, Dts, Cs, all) ==
  \E L \in Ls, dx \in Dxs, dtv \in Dts, c \in Cs,
     ut_x0 \in InitVel1D :
    \E n \in {Len(Arange(L, dx))} :
    \E u_x0 \in InitPos1D(IF all THEN AllTables(n) ELSE FewTables(n)) :
      Construct1D(u_x0, ut_x0, dtv, L, dx, c)

\* Wave2D(u_xy0, ut_xy0, Lx, Ly, dt, dxy, c) with Lx, Ly from Ls, dxy from Dxs,
\* dt from Dts, c from Cs
Build2D(Ls, Dxs, Dts, Cs) ==
  \E Lx \in Ls, Ly \in Ls, dxy \in Dxs, dtv \in Dts,
     c \in Cs, u_xy0 \in InitPos2D, ut_xy0 \in InitVel2D :
    Construct2D(u_xy0, ut_xy0, Lx, Ly, dtv, dxy, c)

\* One consumer pulling from one sequence, as wave_project.py does, for every
\* constructor input.
Next ==
  \/ Build1D(Lengths, SpaceSteps, TimeSteps, Speeds, TRUE)
  \/ Build2D(Lengths, SpaceSteps, TimeSteps, Speeds)
  \/ \E steps \in 1..MaxSteps : gens = <<>> /\ NewIteration(steps)
  \/ \E g \in DOMAIN gens : Pull(g)
  \/ SubStep1D
  \/ SubStep2D
  \/ Yield

Spec == Init /\ [][Next]_vars

\* Several sequences obtained from one stepper and pulled in any order, with
\* the caller querying ux_init() in between, for the unit domain, dx = 1/2,
\* dt = 1/4, c = 1 and two tables.
NextShared ==
  \/ Build1D({One}, {Half}, {<<1, 4>>}, {One}, FALSE)
  \/ Build2D({One}, {Half}, {<<1, 4>>}, {One})
  \/ \E steps \in 1..MaxSteps : NewIteration(steps)
  \/ \E g \in DOMAIN gens : Pull(g)
  \/ SubStep1D
  \/ SubStep2D
  \/ Yield
  \/ UxInit

SpecShared == Init /\ [][NextShared]_vars

\* Once next() is called the interpreter runs the generator's body up to its
\* yield: the loop body and the yield are not postponed forever.
\* (One sequence, for the unit domain and two tables.)
NextFair ==
  \/ Build1D({One}, SpaceSteps, TimeSteps, Speeds, FALSE)
  \/ Build2D({One}, SpaceSteps, TimeSteps, Speeds)
  \/ \E steps \in 1..MaxSteps : gens = <<>> /\ NewIteration(steps)
  \/ \E g \in DOMAIN gens : Pull(g)
  \/ SubStep1D
  \/ SubStep2D
  \/ Yield

FairSpec ==
  /\ Init
  /\ [][NextFair]_vars
  /\ WF_vars(SubStep1D)
  /\ WF_vars(SubStep2D)
  /\ WF_vars(Yield)

\* One sequence, with a caller that queries ux_init() and also writes into the
\* arrays it received.
NextCaller ==
  \/ Build1D({One}, SpaceSteps, TimeSteps, Speeds, FALSE)
  \/ Build2D({One}, SpaceSteps, TimeSteps, Speeds)
  \/ \E steps \in 1..MaxSteps : gens = <<>> /\ NewIteration(steps)
  \/ \E g \in DOMAIN gens : Pull(g)
  \/ SubStep1D
  \/ SubStep2D
  \/ Yield
  \/ UxInit
  \/ \E r \in 1..Len(heap), i \in AxisIndices, j \in AxisIndices :
       CallerWrite(r, i, j, <<7, 1>>)

SpecCaller == Init /\ [][NextCaller]_vars

\* ------------------------------------------------------------- properties
\* The first and last sample along every axis of u are exactly 0.
ZeroEdges(u) ==
  IF dim = 1
  THEN u[1] = Zero /\ u[Len(u)] = Zero
  ELSE \A i \in 1..Len(u), j \in 1..Len(u[1]) :
         (i \in {1, Len(u)} \/ j \in {1, Len(u[1])}) => u[i][j] = Zero

\* Some sample of u that is not on an edge is not 0.
LiveInterior(u) ==
  IF dim = 1
  THEN \E i \in 2..(Len(u) - 1) : u[i] # Zero
  ELSE \E i \in 2..(Len(u) - 1), j \in 2..(Len(u[1]) - 1) : u[i][j] # Zero

\* C1. Boundary invariant: once construction has succeeded, and after any
\* number of sub-steps, prev, curr and the snapshot last yielded are exactly 0
\* at the first and last index of every axis.
C1_BoundaryInvariant ==
  phase = "Bootstrapped" =>
    /\ ZeroEdges(heap[u_tim1])
    /\ ZeroEdges(heap[u_ti])
    /\ out # None => ZeroEdges(heap[out.field])

\* A 2D stepper started from the all-ones field (nonzero on every edge) has
\* yielded a snapshot after two sub-steps whose interior is not all zero.
C1_Witness ==
  /\ phase = "Bootstrapped"
  /\ dim = 2
  /\ args.u_x0 = "ones"
  /\ out # None
  /\ nsub >= 2
  /\ LiveInterior(heap[out.field])

\* (c * dt)^2 > bound * dx^2, from the constructor's arguments.
ExceedsBound(bound) ==
  LET cdt == RMul(args.c, args.dt)
  IN  RGt(RMul(cdt, cdt), RMul(bound, RMul(args.dx, args.dx)))

\* C2. Stability gate: construction fails exactly when alpha2 exceeds 1 (1D) or
\* 0.5 (2D), equality succeeding; on failure the initial-condition functions
\* were not called and no prev/curr field, sequence or snapshot exists; on
\* success the stepper is bootstrapped.
C2_StabilityGate ==
  phase # "Uninitialized" =>
    /\ phase = "Failed" <=> ExceedsBound(IF dim = 1 THEN One ELSE Half)
    /\ phase = "Failed" =>
         /\ icCalls = 0
         /\ u_tim1 = 0 /\ u_ti = 0 /\ u_tip1 = 0
         /\ hist = <<>> /\ gens = <<>> /\ out = None /\ nsub = 0
    /\ phase = "Bootstrapped" =>
         /\ icCalls = 2
         /\ u_tim1 # 0 /\ u_ti # 0
         /\ Len(hist) = nsub + 2

\* Construction of a Wave1D has failed.
C2_Witness == phase = "Failed" /\ dim = 1

\* C3. Clock and pacing: the clock is dt after construction and grows by dt per
\* sub-step and at no other time; a pull yields after exactly `steps`
\* sub-steps, so the k-th snapshot of the single sequence of a fresh stepper
\* carries time dt * (1 + k * steps).
C3_ClockAndPacing ==
  phase = "Bootstrapped" =>
    /\ time = RMul(args.dt, <<1 + nsub, 1>>)
    /\ running # 0 =>
         nsub = gens[running].from + gens[running].steps - gens[running].left
    /\ out # None =>
         /\ out.n = out.m + gens[out.gen].steps
         /\ out.n = out.k * gens[out.gen].steps
         /\ out.time = RMul(args.dt, <<1 + out.k * gens[out.gen].steps, 1>>)

\* The second snapshot of iteration(steps=2) has been yielded.
C3_Witness == out # None /\ out.k = 2 /\ gens[out.gen].steps = 2

\* The reference stencils: true in-range neighbours at interior indices, 0 at
\* the boundary indices.
RefFirst1D(dtv, vel, a2, p) ==
  [i \in 1..Len(p) |->
     IF i \in {1, Len(p)} THEN Zero
     ELSE RAdd(RAdd(RMul(dtv, vel[i]), RMul(RSub(One, a2), p[i])),
               RMul(RMul(Half, a2), RAdd(p[i - 1], p[i + 1])))]

RefStep1D(a2, p, c) ==
  [i \in 1..Len(c) |->
     IF i \in {1, Len(c)} THEN Zero
     ELSE RAdd(RAdd(RNeg(p[i]), RMul(RMul(Two, RSub(One, a2)), c[i])),
               RMul(a2, RAdd(c[i - 1], c[i + 1])))]

RefFirst2D(dtv, vel, a2, p) ==
  [i \in 1..Len(p) |-> [j \in 1..Len(p[1]) |->
     IF i \in {1, Len(p)} \/ j \in {1, Len(p[1])} THEN Zero
     ELSE RAdd(RAdd(RMul(dtv, vel[i][j]),
                    RMul(RSub(One, RMul(Two, a2)), p[i][j])),
               RMul(RMul(Half, a2),
                    RAdd(RAdd(p[i - 1][j], p[i + 1][j]),
                         RAdd(p[i][j - 1], p[i][j + 1]))))]]

RefStep2D(a2, p, c) ==
  [i \in 1..Len(c) |-> [j \in 1..Len(c[1]) |->
     IF i \in {1, Len(c)} \/ j \in {1, Len(c[1])} THEN Zero
     ELSE RAdd(RAdd(RNeg(p[i][j]),
                    RMul(RMul(Two, RSub(One, RMul(Two, a2))), c[i][j])),
               RMul(a2,
                    RAdd(RAdd(c[i - 1][j], c[i + 1][j]),
                         RAdd(c[i][j - 1], c[i][j + 1]))))]]

\* C4. Masked wraparound: the bootstrap level and every later level, computed
\* with circular neighbour indexing and then zeroed at the boundary, equal at
\* every index the reference stencil applied to the two levels before.
C4_StencilMatchesReference ==
  phase = "Bootstrapped" =>
    /\ hist[2] =
         IF dim = 1
         THEN RefFirst1D(args.dt, CallVel1D(args.ut_x0, heap[x]), alpha2, hist[1])
         ELSE RefFirst2D(args.dt, CallVel2D(args.ut_x0, heap[x], heap[y]),
                         alpha2, hist[1])
    /\ \A k \in 3..Len(hist) :
         hist[k] = IF dim = 1 THEN RefStep1D(alpha2, hist[k - 2], hist[k - 1])
                              ELSE RefStep2D(alpha2, hist[k - 2], hist[k - 1])

\* A three-point string has made a sub-step whose circular stencil gave a
\* nonzero value at index 0, which the boundary zeroing then removed.
C4_Witness ==
  /\ phase = "Bootstrapped"
  /\ dim = 1
  /\ nsub >= 1
  /\ Len(hist[1]) = 3
  /\ Stencil1D(alpha2, hist[1], hist[2])[1] # Zero
  /\ hist[3][1] = Zero

\* C5. Grid immutability: the grid ux_init() / uxy_init() returns has the
\* length and values np.arange gave it, before and after any number of
\* advances, for every initial-position function.
C5_GridNeverModified ==
  phase = "Bootstrapped" =>
    /\ heap[ux_init.x] = grid0[1]
    /\ dim = 2 => heap[ux_init.y] = grid0[2]

\* C6. Returned fields do not alias live storage: a write by the caller into a
\* field it received changes neither the prev nor the curr array of the stepper.
C6_ReturnedFieldsNotAliased ==
  [][writes' # writes =>
       /\ heap'[u_tim1] = heap[u_tim1]
       /\ heap'[u_ti] = heap[u_ti]]_vars

Mid(u) == (Len(u) + 1) \div 2

Symmetric(u) == \A i \in 1..Len(u) : u[i] = u[Len(u) + 1 - i]

AntiSymmetric(u) == \A i \in 1..Len(u) : u[i] = RNeg(u[Len(u) + 1 - i])

\* The first snapshot of iteration(steps=1) of a Wave1D with an odd number of
\* interior samples and zero initial velocity has been yielded.
C7_Case ==
  /\ phase = "Bootstrapped"
  /\ dim = 1
  /\ args.ut_x0 = "init_vel1d"
  /\ Len(hist[1]) >= 3
  /\ Len(hist[1]) % 2 = 1
  /\ out # None
  /\ out.k = 1
  /\ gens[out.gen].steps = 1

\* C7 as claimed. Stationary midpoint: for an initial field mirror-symmetric
\* about the middle sample, the middle sample of the first snapshot equals the
\* middle sample of the initial field.
C7_StationaryMidpoint ==
  (C7_Case /\ Symmetric(hist[1])) =>
    heap[out.field][Mid(hist[1])] = hist[1][Mid(hist[1])]

\* C7 as amended. Stationary node: for an initial field mirror-antisymmetric
\* about the middle sample, the middle sample of the first snapshot equals the
\* middle sample of the initial field (which is 0).
C7_StationaryNode ==
  (C7_Case /\ AntiSymmetric(hist[1])) =>
    heap[out.field][Mid(hist[1])] = hist[1][Mid(hist[1])]

\* An antisymmetric field on five points that is not all zero, one step on.
C7_Witness ==
  /\ C7_Case
  /\ AntiSymmetric(hist[1])
  /\ Len(hist[1]) = 5
  /\ hist[1][2] # Zero
  /\ heap[out.field][2] # Zero

\* C8. Every pull yields: once next() has been called on a sequence, that
\* sequence eventually yields a pair, whatever was pulled before.
C8_EveryPullYields ==
  \A g \in 1..MaxGens :
    (running = g) ~> (running = 0 /\ out # None /\ out.gen = g)

\* A pull is under way on a stepper that has already yielded.
C8_Witness == running # 0 /\ out # None /\ nsub >= 2

\* The initial field with zeroed boundaries, from the constructor's arguments.
InitialField ==
  IF dim = 1
  THEN LET raw == CASE args.u_x0.kind = "table" -> args.u_x0.vals
                    [] args.u_x0.kind = "grid" -> grid0[1]
                    [] args.u_x0.kind = "pulse_trian1d" ->
                         pulse_trian1d(grid0[1], args.L)
                    [] args.u_x0.kind = "pulse_square1d" ->
                         pulse_square1d(grid0[1], args.L)
       IN  [i \in 1..Len(grid0[1]) |->
             IF i \in {1, Len(grid0[1])} THEN Zero ELSE raw[i]]
  ELSE LET raw == CallInit2D(args.u_x0, grid0[1], grid0[2], args.L, args.Ly)
       IN  [i \in 1..Len(grid0[1]) |-> [j \in 1..Len(grid0[2]) |->
             IF i \in {1, Len(grid0[1])} \/ j \in {1, Len(grid0[2])}
             THEN Zero ELSE raw[i][j]]]

C9_Levels ==
  phase = "Bootstrapped" =>
    /\ hist[1] = InitialField
    /\ heap[u_tim1] = hist[nsub + 1]
    /\ heap[u_ti] = hist[nsub + 2]
    /\ heap[ux_init.u] = hist[nsub + 1]
    /\ out # None => heap[out.field] = hist[out.n + 2]
    /\ got # None => heap[got.u] = hist[got.n + 1]

C9_Frame == \A r \in 1..Len(heap) : heap'[r] = heap[r]

C10_Yielded ==
  out # None =>
    /\ out.n = out.m + gens[out.gen].steps
    /\ out.time = RMul(args.dt, <<1 + out.m + gens[out.gen].steps, 1>>)
    /\ heap[out.field] = hist[out.n + 2]

C10_Order ==
  (out # None /\ out' # out) => (out'.n > out.n /\ RGt(out'.time, out.time))

\* C10. Non-restartable sequences over one shared state: a pull of a sequence
\* with steps = s begun after m sub-steps yields the level and the time
\* dt * (1 + m + s), whichever sequences were pulled before, and from one
\* yield to the next the time grows and no earlier level is yielded again.
C10_SharedState == [](C10_Yielded) /\ [][C10_Order]_vars

\* A second sequence, with another steps value, has yielded after the first.
C10_Witness ==
  /\ Len(gens) = 2
  /\ gens[1].pulls >= 1
  /\ gens[2].pulls >= 1
  /\ gens[1].steps # gens[2].steps
  /\ out # None /\ out.gen = 2 /\ out.m >= 1
  /\ LiveInterior(heap[out.field])

====
